---- MODULE Spec2Model ----
(***************************************************************************)
(* Calendly OAuth token lifecycle: the token file, the expiry check, the   *)
(* refresh handshake and get_valid_access_token (utils/calendly_auth.py),  *)
(* together with the web callback and disconnect handlers that write and   *)
(* remove the same file (routes/calendly.py).                              *)
(*                                                                         *)
(* A token dictionary is a function from a subset of the JSON keys to      *)
(* values; "key in tokens" is  key \in DOMAIN tokens.                      *)
(***************************************************************************)
EXTENDS Integers, Sequences, FiniteSets, TLC

VARIABLES
    now,          \* int(time.time()): the wall clock, in seconds
    env,          \* the set of environment variables that are set
    TOKENS_FILE,  \* data/calendly_tokens.json
    pc,           \* position of each tool call in the function it entered
    fn,           \* the function each tool call entered
    request,      \* form data of the refresh request a tool call has in flight
    response,     \* the authorization server's answer to that request
    requests,     \* refresh requests the tool call has sent since it entered
    outcome,      \* how the tool call's function ended
    web,          \* the web server's last response
    probe,        \* argument and result of a direct call of a pure function
    tool          \* the Calendly tool each caller is running, and how far it is

vars == <<now, env, TOKENS_FILE, pc, fn, request, response, requests, outcome,
          web, probe, tool>>

(***************************************************************************)
(* Bounds of the model.                                                    *)
(***************************************************************************)
\* how many times the clock advances in a run
MaxTicks == 2
\* half-width of the window of integers tried around the refresh boundary
ProbeSpan == 3

\* the clock at the start of a run, and the steps by which it advances
StartTimes == {1000}
TickSteps == {100}
\* how far the authorization server's clock may lag behind the local one
ServerLag == {100}

(***************************************************************************)
(* Program constants.                                                      *)
(***************************************************************************)
EXPIRY_BUFFER_SECONDS == 300

CLIENT_ID == "CALENDLY_CLIENT_ID"
CLIENT_SECRET == "CALENDLY_CLIENT_SECRET"

MSG_NOT_CONNECTED ==
    "Calendly not connected. Please connect via the web interface first."
MSG_NO_REFRESH_TOKEN ==
    "No refresh token available. Please reconnect Calendly."
MSG_NOT_CONFIGURED ==
    "CALENDLY_CLIENT_ID and CALENDLY_CLIENT_SECRET must be set"
MSG_CURRENT_USER_FAILED == "Failed to get current user: "
MSG_UNEXPECTED == "Unexpected error: "
MSG_REFRESH_FAILED == "Failed to refresh token: "

(***************************************************************************)
(* Dictionaries.                                                           *)
(***************************************************************************)
EmptyDict == <<>>

Has(d, k) == k \in DOMAIN d

\* Python truthiness of d.get(k) for an integer-valued key: None and 0 are falsy
TruthyInt(d, k) == Has(d, k) /\ d[k] # 0

\* Python truthiness of d.get(k) for a string-valued key: None and "" are falsy
TruthyStr(d, k) == Has(d, k) /\ d[k] # ""

\* d with d[k] = v (assignment d[k] = v)
SetKey(d, k, v) == (k :> v) @@ d

(***************************************************************************)
(* The tool calls that enter utils/calendly_auth.py.                       *)
(***************************************************************************)
Callers == {"c1", "c2"}
\* the tool call that runs when tool calls do not overlap
Tools == {"c1"}

(***************************************************************************)
(* The token file: absent, or holding text.  The text of a JSON object is  *)
(* its members, one <<key, value>> per key; a file that was opened for     *)
(* writing and not written yet holds the empty text, which is not JSON.    *)
(***************************************************************************)
EmptyText == [valid |-> FALSE, members |-> {}]

\* json.dump(d, f): the text written for the dictionary d
json_dump(d) == [valid |-> TRUE, members |-> {<<k, d[k]>> : k \in DOMAIN d}]

\* json.load(f) of a text that parses: the dictionary it denotes
json_load(text) ==
    [k \in {m[1] : m \in text.members} |->
        (CHOOSE m \in text.members : m[1] = k)[2]]

NoFile == [exists |-> FALSE, data |-> EmptyText]
Written(d) == [exists |-> TRUE, data |-> json_dump(d)]

(***************************************************************************)
(* How a call ends: it returns a value or raises an exception of class     *)
(* exc with the message msg (a sequence of the pieces of an f-string).     *)
(***************************************************************************)
NoOutcome ==
    [kind |-> "none", value |-> "", dict |-> EmptyDict, exc |-> "", msg |-> <<>>]
\* return of a string
Return(v) ==
    [kind |-> "return", value |-> v, dict |-> EmptyDict, exc |-> "", msg |-> <<>>]
\* return of a dictionary
ReturnDict(d) ==
    [kind |-> "return", value |-> "", dict |-> d, exc |-> "", msg |-> <<>>]
Raise(e, m) ==
    [kind |-> "raise", value |-> "", dict |-> EmptyDict, exc |-> e, msg |-> m]

\* an HTTP response
NoResponse ==
    [status |-> 0, is_json |-> FALSE, json |-> EmptyDict, text |-> ""]

(***************************************************************************)
(* tools/calendly.py: what a tool hands back.  A tool returns a dictionary *)
(* with "success" and, on failure, "error" (the pieces of the message).    *)
(***************************************************************************)
NoResult == [kind |-> "none", success |-> FALSE, error |-> <<>>]
ToolReturn(success, error) ==
    [kind |-> "return", success |-> success, error |-> error]

\* no tool running
NoTool ==
    [name |-> "", call |-> "", stage |-> "", api_requests |-> 0,
     result |-> NoResult]

(***************************************************************************)
(* What the authorization server may answer.  It answers every request.    *)
(* The lifetime it announces is whatever it chooses, zero included; the    *)
(* issue time it sends, when it sends one, is a real epoch time.           *)
(***************************************************************************)
AccessTokens == {"A1", "A2"}
RefreshTokens == {"R1"}
ExpiresInValues == {0, 300, 500}

AccessParts == {EmptyDict} \cup {"access_token" :> a : a \in AccessTokens}
RefreshParts == {EmptyDict} \cup {"refresh_token" :> r : r \in RefreshTokens}
ExpiresParts == {EmptyDict} \cup {"expires_in" :> e : e \in ExpiresInValues}
\* the server's own issue time, when it sends one
CreatedParts(t) == {EmptyDict} \cup {"created_at" :> (t - lag) : lag \in ServerLag}

\* the JSON object of a token response sent at time t
TokenPayloads(t) ==
    {a @@ r @@ e @@ c : a \in AccessParts, r \in RefreshParts,
                        e \in ExpiresParts, c \in CreatedParts(t)}

SuccessResponses(t) ==
    {[status |-> 200, is_json |-> TRUE, json |-> p, text |-> "{...}"] :
        p \in TokenPayloads(t)}

ErrorResponses ==
    { [status |-> 400, is_json |-> TRUE, text |-> "{error, error_description}",
       json |-> ("error" :> "invalid_grant") @@
                ("error_description" :> "token revoked")],
      [status |-> 400, is_json |-> TRUE, text |-> "{error}",
       json |-> ("error" :> "invalid_grant")],
      [status |-> 400, is_json |-> TRUE, text |-> "{}", json |-> EmptyDict],
      [status |-> 502, is_json |-> FALSE, text |-> "Bad Gateway",
       json |-> EmptyDict] }

TokenResponses(t) == SuccessResponses(t) \cup ErrorResponses

\* the records a caller may hand to refresh_access_token
RefreshArguments(t) ==
    {a @@ r @@ e @@ c : a \in AccessParts, r \in RefreshParts,
                        e \in {EmptyDict}, c \in CreatedParts(t)}

(***************************************************************************)
(* utils/calendly_auth.py: the pure parts.                                 *)
(***************************************************************************)
\* is_token_expired as it would be if missing expiry fields meant "expired"
is_token_expired_pessimistic(tokens, current_time) ==
    IF tokens = EmptyDict THEN TRUE
    ELSE IF ~TruthyInt(tokens, "created_at") \/ ~TruthyInt(tokens, "expires_in")
         THEN TRUE
    ELSE current_time >=
            (tokens["created_at"] + tokens["expires_in"]) - EXPIRY_BUFFER_SECONDS

\* is_token_expired as it would be with the buffer subtracted twice
is_token_expired_double_buffer(tokens, current_time) ==
    IF tokens = EmptyDict THEN TRUE
    ELSE IF ~TruthyInt(tokens, "created_at") \/ ~TruthyInt(tokens, "expires_in")
         THEN FALSE
    ELSE current_time + EXPIRY_BUFFER_SECONDS >=
            (tokens["created_at"] + tokens["expires_in"]) - EXPIRY_BUFFER_SECONDS

\* is_token_expired as it would be with the buffer added instead of subtracted
is_token_expired_late(tokens, current_time) ==
    IF tokens = EmptyDict THEN TRUE
    ELSE IF ~TruthyInt(tokens, "created_at") \/ ~TruthyInt(tokens, "expires_in")
         THEN FALSE
    ELSE current_time >=
            (tokens["created_at"] + tokens["expires_in"]) + EXPIRY_BUFFER_SECONDS

\* is_token_expired(tokens) evaluated when the clock reads current_time
is_token_expired(tokens, current_time) ==
    IF tokens = EmptyDict THEN TRUE
    ELSE IF ~TruthyInt(tokens, "created_at") \/ ~TruthyInt(tokens, "expires_in")
         THEN FALSE
    ELSE LET expiry_time == tokens["created_at"] + tokens["expires_in"]
         IN  current_time >= (expiry_time - EXPIRY_BUFFER_SECONDS)

\* the detail as it would be if the error field were preferred
error_detail_error_first(r) ==
    IF ~r.is_json THEN r.text
    ELSE IF Has(r.json, "error") THEN r.json["error"]
    ELSE IF Has(r.json, "error_description") THEN r.json["error_description"]
    ELSE r.text

\* error_json.get("error_description", error_json.get("error", response.text)),
\* and response.text when the body is not JSON
error_detail(r) ==
    IF ~r.is_json THEN r.text
    ELSE IF Has(r.json, "error_description") THEN r.json["error_description"]
    ELSE IF Has(r.json, "error") THEN r.json["error"]
    ELSE r.text

\* new_tokens["created_at"] = int(time.time())
stamp_created_at(d, t) == SetKey(d, "created_at", t)

\* save_tokens as it would be if it stamped every payload
save_tokens_always_stamp(tokens, t) == Written(SetKey(tokens, "created_at", t))

\* save_tokens as it would be if it updated the stored record with the payload
save_tokens_update(tokens, t) ==
    Written((IF ~Has(tokens, "created_at") THEN SetKey(tokens, "created_at", t)
             ELSE tokens)
            @@ (IF TOKENS_FILE.exists /\ TOKENS_FILE.data.valid
                THEN json_load(TOKENS_FILE.data) ELSE EmptyDict))

\* save_tokens(tokens) at time t: the file's content afterwards
save_tokens(tokens, t) ==
    Written(IF ~Has(tokens, "created_at") THEN SetKey(tokens, "created_at", t)
            ELSE tokens)

\* load_tokens(): None when the file does not exist; json.load raises
\* JSONDecodeError on a text that is not JSON
load_tokens ==
    IF ~TOKENS_FILE.exists
    THEN [none |-> TRUE, error |-> FALSE, value |-> EmptyDict]
    ELSE IF ~TOKENS_FILE.data.valid
    THEN [none |-> FALSE, error |-> TRUE, value |-> EmptyDict]
    ELSE [none |-> FALSE, error |-> FALSE, value |-> json_load(TOKENS_FILE.data)]

\* routes/calendly.py: save_tokens(tokens) writes the dictionary as it is
routes_save_tokens(tokens) == Written(tokens)

(***************************************************************************)
(* Initial state: nothing stored, no call running.  The environment is     *)
(* read at start-up and either credential may be unset.                    *)
(***************************************************************************)
NoProbe == [tokens |-> EmptyDict, called |-> FALSE, ret |-> FALSE]
NoRequest == EmptyDict

Idle ==
    /\ pc = [c \in Callers |-> "idle"]
    /\ fn = [c \in Callers |-> ""]
    /\ request = [c \in Callers |-> NoRequest]
    /\ response = [c \in Callers |-> NoResponse]
    /\ requests = [c \in Callers |-> 0]
    /\ outcome = [c \in Callers |-> NoOutcome]
    /\ web = NoOutcome
    /\ tool = [c \in Callers |-> NoTool]

Init ==
    /\ now \in StartTimes
    /\ env \in SUBSET {CLIENT_ID, CLIENT_SECRET}
    /\ TOKENS_FILE = NoFile
    /\ Idle
    /\ probe = NoProbe

\* return tokens["access_token"]: a missing key raises KeyError
return_access_token(tokens) ==
    IF Has(tokens, "access_token")
    THEN Return(tokens["access_token"])
    ELSE Raise("KeyError", <<"access_token">>)

(***************************************************************************)
(* Steps shared by the functions.                                          *)
(***************************************************************************)
\* tool call c enters function f
Enters(c, f) ==
    /\ pc[c] = "idle"
    /\ fn' = [fn EXCEPT ![c] = f]

\* c's function ends with outcome o
Ends(c, o) ==
    /\ pc' = [pc EXCEPT ![c] = "done"]
    /\ outcome' = [outcome EXCEPT ![c] = o]
    /\ request' = [request EXCEPT ![c] = NoRequest]

\* the tool that called the function takes the outcome; c is free again
tool_returns(c) ==
    /\ pc[c] = "done"
    /\ pc' = [pc EXCEPT ![c] = "idle"]
    /\ fn' = [fn EXCEPT ![c] = ""]
    /\ response' = [response EXCEPT ![c] = NoResponse]
    /\ requests' = [requests EXCEPT ![c] = 0]
    /\ outcome' = [outcome EXCEPT ![c] = NoOutcome]
    /\ UNCHANGED <<now, env, TOKENS_FILE, request, web, probe, tool>>

(***************************************************************************)
(* utils/calendly_auth.py: refresh_access_token(tokens), called by tool    *)
(* call c.  The part up to the POST of the refresh request.                *)
(***************************************************************************)
\* refresh_request as it would be with the configuration check first
refresh_request_config_first(c, tokens) ==
    IF CLIENT_ID \notin env \/ CLIENT_SECRET \notin env
    THEN /\ Ends(c, Raise("RuntimeError", <<MSG_NOT_CONFIGURED>>))
         /\ UNCHANGED requests
    ELSE IF ~TruthyStr(tokens, "refresh_token")
    THEN /\ Ends(c, Raise("RuntimeError", <<MSG_NO_REFRESH_TOKEN>>))
         /\ UNCHANGED requests
    ELSE /\ pc' = [pc EXCEPT ![c] = "refreshing"]
         /\ requests' = [requests EXCEPT ![c] = @ + 1]
         /\ request' = [request EXCEPT ![c] =
                 ("grant_type" :> "refresh_token") @@
                 ("refresh_token" :> tokens["refresh_token"])]
         /\ UNCHANGED outcome

\* refresh_request as it would be if only both credentials missing were an error
refresh_request_both_missing(c, tokens) ==
    IF ~TruthyStr(tokens, "refresh_token")
    THEN /\ Ends(c, Raise("RuntimeError", <<MSG_NO_REFRESH_TOKEN>>))
         /\ UNCHANGED requests
    ELSE IF CLIENT_ID \notin env /\ CLIENT_SECRET \notin env
    THEN /\ Ends(c, Raise("RuntimeError", <<MSG_NOT_CONFIGURED>>))
         /\ UNCHANGED requests
    ELSE /\ pc' = [pc EXCEPT ![c] = "refreshing"]
         /\ requests' = [requests EXCEPT ![c] = @ + 1]
         /\ request' = [request EXCEPT ![c] =
                 ("grant_type" :> "refresh_token") @@
                 ("refresh_token" :> tokens["refresh_token"])]
         /\ UNCHANGED outcome

refresh_request(c, tokens) ==
    IF ~TruthyStr(tokens, "refresh_token")
    THEN /\ Ends(c, Raise("RuntimeError", <<MSG_NO_REFRESH_TOKEN>>))
         /\ UNCHANGED requests
    ELSE IF CLIENT_ID \notin env \/ CLIENT_SECRET \notin env
    THEN /\ Ends(c, Raise("RuntimeError", <<MSG_NOT_CONFIGURED>>))
         /\ UNCHANGED requests
    ELSE \* requests.post(...): the request is sent and the call blocks
         /\ pc' = [pc EXCEPT ![c] = "refreshing"]
         /\ requests' = [requests EXCEPT ![c] = @ + 1]
         /\ request' = [request EXCEPT ![c] =
                 ("grant_type" :> "refresh_token") @@
                 ("refresh_token" :> tokens["refresh_token"])]
         /\ UNCHANGED outcome

\* a direct call refresh_access_token(tokens)
refresh_access_token(c, tokens) ==
    /\ Enters(c, "refresh_access_token")
    /\ refresh_request(c, tokens)
    /\ UNCHANGED <<now, env, TOKENS_FILE, response, web, probe, tool>>

\* the connected check as it would be without the access_token test
not_connected_no_record_only(loaded) ==
    \/ loaded.none
    \/ loaded.value = EmptyDict

\* if not tokens or "access_token" not in tokens
not_connected(loaded) ==
    \/ loaded.none
    \/ loaded.value = EmptyDict
    \/ ~Has(loaded.value, "access_token")

(***************************************************************************)
(* get_valid_access_token(), called by tool call c: load, the connected    *)
(* check, the expiry check and, for a stale record, the refresh up to its  *)
(* request.                                                                *)
(***************************************************************************)
get_valid_access_token(c) ==
    /\ Enters(c, "get_valid_access_token")
    /\ LET loaded == load_tokens
       IN  IF loaded.error
           THEN /\ Ends(c, Raise("JSONDecodeError", <<>>))
                /\ UNCHANGED requests
           ELSE IF not_connected(loaded)
           THEN /\ Ends(c, Raise("RuntimeError", <<MSG_NOT_CONNECTED>>))
                /\ UNCHANGED requests
           ELSE IF is_token_expired(loaded.value, now)
           THEN refresh_request(c, loaded.value)
           ELSE /\ Ends(c, return_access_token(loaded.value))
                /\ UNCHANGED requests
    /\ UNCHANGED <<now, env, TOKENS_FILE, response, web, probe, tool>>

\* refresh_response as it would be if a rejected refresh were tried once more
refresh_response_retry(c, r) ==
    /\ pc[c] = "refreshing"
    /\ response' = [response EXCEPT ![c] = r]
    /\ IF r.status # 200 /\ requests[c] < 2
       THEN /\ requests' = [requests EXCEPT ![c] = @ + 1]
            /\ UNCHANGED <<TOKENS_FILE, pc, outcome, request>>
       ELSE IF r.status # 200
       THEN /\ Ends(c, Raise("RuntimeError", <<MSG_REFRESH_FAILED, error_detail(r)>>))
            /\ UNCHANGED <<TOKENS_FILE, requests>>
       ELSE LET new_tokens == stamp_created_at(r.json, now)
            IN  /\ TOKENS_FILE' = save_tokens(new_tokens, now)
                /\ Ends(c, IF fn[c] = "refresh_access_token"
                           THEN ReturnDict(new_tokens)
                           ELSE return_access_token(new_tokens))
                /\ UNCHANGED requests
    /\ UNCHANGED <<now, env, fn, web, probe, tool>>

\* refresh_response as it would be if a rejected refresh dropped the record
refresh_response_forget(c, r) ==
    /\ pc[c] = "refreshing"
    /\ response' = [response EXCEPT ![c] = r]
    /\ IF r.status # 200
       THEN /\ Ends(c, Raise("RuntimeError", <<MSG_REFRESH_FAILED, error_detail(r)>>))
            /\ TOKENS_FILE' = NoFile
       ELSE LET new_tokens == stamp_created_at(r.json, now)
            IN  /\ TOKENS_FILE' = save_tokens(new_tokens, now)
                /\ Ends(c, IF fn[c] = "refresh_access_token"
                           THEN ReturnDict(new_tokens)
                           ELSE return_access_token(new_tokens))
    /\ UNCHANGED <<now, env, fn, requests, web, probe, tool>>

(***************************************************************************)
(* The authorization server answers c's refresh request with r: the status *)
(* check, the stamp, save_tokens, and the return of refresh_access_token   *)
(* (new_tokens) or of get_valid_access_token (tokens["access_token"]).     *)
(***************************************************************************)
refresh_response(c, r) ==
    /\ pc[c] = "refreshing"
    /\ response' = [response EXCEPT ![c] = r]
    /\ IF r.status # 200
       THEN /\ Ends(c, Raise("RuntimeError", <<MSG_REFRESH_FAILED, error_detail(r)>>))
            /\ UNCHANGED TOKENS_FILE
       ELSE LET new_tokens == stamp_created_at(r.json, now)
            IN  /\ TOKENS_FILE' = save_tokens(new_tokens, now)
                /\ Ends(c, IF fn[c] = "refresh_access_token"
                           THEN ReturnDict(new_tokens)
                           ELSE return_access_token(new_tokens))
    /\ UNCHANGED <<now, env, fn, requests, web, probe, tool>>

(***************************************************************************)
(* routes/calendly.py: the OAuth callback.  error and code say whether the *)
(* query parameter is present; r is the answer to the code exchange.       *)
(***************************************************************************)
\* the callback as it would be without the status check of the exchange
calendly_auth_callback_any_status(error, code, r) ==
    /\ IF error \/ ~code
       THEN /\ web' = Return("JSONResponse 400")
            /\ UNCHANGED TOKENS_FILE
       ELSE IF CLIENT_ID \notin env \/ CLIENT_SECRET \notin env
       THEN /\ web' = Return("JSONResponse 500")
            /\ UNCHANGED TOKENS_FILE
       ELSE IF ~r.is_json
       THEN /\ web' = Raise("JSONDecodeError", <<>>)
            /\ UNCHANGED TOKENS_FILE
       ELSE /\ TOKENS_FILE' = routes_save_tokens(r.json)
            /\ web' = Return("RedirectResponse")
    /\ UNCHANGED <<now, env, pc, fn, request, response, requests, outcome, probe, tool>>

\* the details of a failed exchange are response.json(), which raises
\* JSONDecodeError on a body that is not JSON; the handler then ends with
\* the exception and the framework answers 500
calendly_auth_callback(error, code, r) ==
    /\ IF error \/ ~code
       THEN /\ web' = Return("JSONResponse 400")
            /\ UNCHANGED TOKENS_FILE
       ELSE IF CLIENT_ID \notin env \/ CLIENT_SECRET \notin env
       THEN /\ web' = Return("JSONResponse 500")
            /\ UNCHANGED TOKENS_FILE
       ELSE IF r.status # 200
       THEN /\ web' = IF r.is_json THEN Return("JSONResponse status_code")
                                   ELSE Raise("JSONDecodeError", <<>>)
            /\ UNCHANGED TOKENS_FILE
       ELSE /\ TOKENS_FILE' = routes_save_tokens(r.json)
            /\ web' = Return("RedirectResponse")
    /\ UNCHANGED <<now, env, pc, fn, request, response, requests, outcome, probe, tool>>

\* POST /calendly/disconnect
calendly_disconnect ==
    /\ TOKENS_FILE' = IF TOKENS_FILE.exists THEN NoFile ELSE TOKENS_FILE
    /\ web' = Return("success")
    /\ UNCHANGED <<now, env, pc, fn, request, response, requests, outcome, probe, tool>>

\* utils/calendly_auth.py: delete_tokens()
delete_tokens ==
    /\ TOKENS_FILE' = IF TOKENS_FILE.exists THEN NoFile ELSE TOKENS_FILE
    /\ UNCHANGED <<now, env, pc, fn, request, response, requests, outcome, web,
                   probe, tool>>

(***************************************************************************)
(* The clock.                                                              *)
(***************************************************************************)
SetMax(S) == CHOOSE m \in S : \A x \in S : x <= m
ClockLimit == SetMax(StartTimes) + MaxTicks * SetMax(TickSteps)

Tick(d) ==
    /\ now + d <= ClockLimit
    /\ now' = now + d
    /\ UNCHANGED <<env, TOKENS_FILE, pc, fn, request, response, requests,
                   outcome, web, probe, tool>>

(***************************************************************************)
(* The system: one tool call at a time, the web handlers and the clock,    *)
(* interleaved.  The only point at which a function waits is the refresh   *)
(* request.                                                                *)
(***************************************************************************)
\* the query parameters of a callback, and the exchange answers that matter
CallbackInputs(t) ==
    {<<TRUE, TRUE, NoResponse>>, <<TRUE, FALSE, NoResponse>>,
     <<FALSE, FALSE, NoResponse>>}
    \cup {<<FALSE, TRUE, r>> : r \in TokenResponses(t)}

Next ==
    \/ \E c \in Tools : get_valid_access_token(c)
    \/ \E c \in Tools : \E t \in RefreshArguments(now) : refresh_access_token(c, t)
    \/ \E c \in Tools : \E r \in TokenResponses(now) : refresh_response(c, r)
    \/ \E c \in Tools : tool_returns(c)
    \/ \E i \in CallbackInputs(now) : calendly_auth_callback(i[1], i[2], i[3])
    \/ calendly_disconnect
    \/ delete_tokens
    \/ \E d \in TickSteps : Tick(d)

Spec == Init /\ [][Next]_vars

(***************************************************************************)
(* Direct calls of is_token_expired on arbitrary records at arbitrary      *)
(* times.                                                                  *)
(***************************************************************************)
ProbeCreatedAt == -1 .. ProbeSpan
ProbeExpiresIn ==
    {0} \cup ((EXPIRY_BUFFER_SECONDS - ProbeSpan) .. (EXPIRY_BUFFER_SECONDS + ProbeSpan))
ProbeTimes == 0 .. (2 * ProbeSpan)

ProbeRecords ==
    {a @@ r @@ e @@ c :
        a \in {EmptyDict, "access_token" :> "A1"},
        r \in {EmptyDict, "refresh_token" :> "R1"},
        e \in {EmptyDict} \cup {"expires_in" :> v : v \in ProbeExpiresIn},
        c \in {EmptyDict} \cup {"created_at" :> v : v \in ProbeCreatedAt}}

InitExpiry ==
    /\ now \in ProbeTimes
    /\ env = {}
    /\ TOKENS_FILE = NoFile
    /\ Idle
    /\ probe \in {[tokens |-> t, called |-> FALSE, ret |-> FALSE] : t \in ProbeRecords}

call_is_token_expired ==
    /\ ~probe.called
    /\ probe' = [probe EXCEPT !.called = TRUE,
                              !.ret = is_token_expired(probe.tokens, now)]
    /\ UNCHANGED <<now, env, TOKENS_FILE, pc, fn, request, response, requests,
                   outcome, web, tool>>

NextExpiry == call_is_token_expired

SpecExpiry == InitExpiry /\ [][NextExpiry]_vars

(***************************************************************************)
(* Vocabulary of the properties.                                           *)
(***************************************************************************)
GVAT == "get_valid_access_token"
REFRESH == "refresh_access_token"

\* the step in which tool call c enters get_valid_access_token
GvatEnters(c) == pc[c] = "idle" /\ pc'[c] # "idle" /\ fn'[c] = GVAT

\* the step in which c's refresh request is answered and the call ends
Answered(c) == pc[c] = "refreshing" /\ pc'[c] = "done"

\* the record in the file
Stored == json_load(TOKENS_FILE.data)

Configured == CLIENT_ID \in env /\ CLIENT_SECRET \in env

\* the named failure conditions, told apart by the exception and its message
NotConnected(o) ==
    o.kind = "raise" /\ o.exc = "RuntimeError" /\ o.msg = <<MSG_NOT_CONNECTED>>
ReconnectRequired(o) ==
    o.kind = "raise" /\ o.exc = "RuntimeError" /\ o.msg = <<MSG_NO_REFRESH_TOKEN>>
ConfigurationError(o) ==
    o.kind = "raise" /\ o.exc = "RuntimeError" /\ o.msg = <<MSG_NOT_CONFIGURED>>
RefreshFailed(o) ==
    /\ o.kind = "raise"
    /\ o.exc = "RuntimeError"
    /\ Len(o.msg) = 2
    /\ o.msg[1] = MSG_REFRESH_FAILED
PersistenceFailure(o) ==
    o.kind = "raise" /\ o.exc \in {"OSError", "JSONDecodeError"}

\* the expiry policy: both fields present and the clock within the buffer
\* of, or past, created_at + expires_in
InsideBuffer(record, t) ==
    /\ Has(record, "created_at")
    /\ Has(record, "expires_in")
    /\ t >= record["created_at"] + record["expires_in"] - 300

(***************************************************************************)
(* C1.  Proactive rotation: every access token that            *)
(* get_valid_access_token returns, from the stored record or from a        *)
(* refresh it just performed, is returned strictly before                  *)
(* created_at + expires_in - 300 of the record it comes from, whenever     *)
(* that record carries created_at and expires_in.                          *)
(***************************************************************************)
C1_ReturnedFromStored(c) ==
    GvatEnters(c) /\ pc'[c] = "done" /\ outcome'[c].kind = "return"

C1_ReturnedFromRefresh(c) ==
    fn[c] = GVAT /\ Answered(c) /\ outcome'[c].kind = "return"

C1_BeforeBuffer(record, t) ==
    t < record["created_at"] + record["expires_in"] - 300

C1_AsClaimed ==
    [][\A c \in Tools :
        /\ ( /\ C1_ReturnedFromStored(c)
             /\ Has(Stored, "created_at")
             /\ Has(Stored, "expires_in") )
           => C1_BeforeBuffer(Stored, now')
        /\ ( /\ C1_ReturnedFromRefresh(c)
             /\ Has(Stored', "created_at")
             /\ Has(Stored', "expires_in") )
           => C1_BeforeBuffer(Stored', now')
      ]_vars

(***************************************************************************)
(* C2.  Stale-token path: when the stored record has access_token,         *)
(* refresh_token, created_at and expires_in, the clock is at or past       *)
(* created_at + expires_in - 300 and the credentials are configured,       *)
(* get_valid_access_token sends exactly one refresh request, carrying the  *)
(* stored refresh_token; and when the server answers it with a success     *)
(* payload P that has an access_token, the call returns P.access_token     *)
(* and the file holds P with created_at equal to the time of the refresh.  *)
(***************************************************************************)
C2_AsClaimed ==
    [][\A c \in Tools :
        /\ ( /\ GvatEnters(c)
             /\ TOKENS_FILE.exists
             /\ Has(Stored, "access_token")
             /\ Has(Stored, "refresh_token")
             /\ InsideBuffer(Stored, now)
             /\ Configured )
           => /\ pc'[c] = "refreshing"
              /\ requests'[c] = 1
              /\ request'[c]["refresh_token"] = Stored["refresh_token"]
              /\ TOKENS_FILE' = TOKENS_FILE
        /\ ( /\ fn[c] = GVAT
             /\ Answered(c)
             /\ response'[c].status = 200
             /\ Has(response'[c].json, "access_token") )
           => /\ requests'[c] = 1
              /\ outcome'[c] = Return(response'[c].json["access_token"])
              /\ TOKENS_FILE'.exists
              /\ Stored'["created_at"] = now'
              /\ \A k \in DOMAIN response'[c].json \ {"created_at"} :
                    Has(Stored', k) /\ Stored'[k] = response'[c].json[k]
      ]_vars

(***************************************************************************)
(* C3.  Fresh-token path: when the stored record has an access_token and   *)
(* is not expired (a field of the expiry is missing, or the clock is       *)
(* before created_at + expires_in - 300), get_valid_access_token returns   *)
(* exactly the stored access_token, sends no request and leaves the file   *)
(* as it is.                                                               *)
(***************************************************************************)
C3_FreshTokenPath ==
    [][\A c \in Tools :
        ( /\ GvatEnters(c)
          /\ TOKENS_FILE.exists
          /\ Has(Stored, "access_token")
          /\ ~InsideBuffer(Stored, now) )
        => /\ pc'[c] = "done"
           /\ outcome'[c] = Return(Stored["access_token"])
           /\ requests'[c] = 0
           /\ request'[c] = NoRequest
           /\ TOKENS_FILE' = TOKENS_FILE
      ]_vars

\* the stored token of a record without expires_in was returned as it is
C3_Witness ==
    \E c \in Tools :
        /\ pc[c] = "done"
        /\ fn[c] = GVAT
        /\ requests[c] = 0
        /\ TOKENS_FILE.exists
        /\ Has(Stored, "access_token")
        /\ ~Has(Stored, "expires_in")
        /\ outcome[c] = Return(Stored["access_token"])

(***************************************************************************)
(* C4.  get_valid_access_token fails with NotConnected whenever there is   *)
(* no file or the record lacks access_token; it then sends no refresh      *)
(* request and leaves the store as it is.                                  *)
(***************************************************************************)
C4_NotConnected ==
    [][\A c \in Tools :
        ( /\ GvatEnters(c)
          /\ (~TOKENS_FILE.exists \/ ~Has(Stored, "access_token")) )
        => /\ pc'[c] = "done"
           /\ NotConnected(outcome'[c])
           /\ requests'[c] = 0
           /\ request'[c] = NoRequest
           /\ TOKENS_FILE' = TOKENS_FILE
      ]_vars

\* NotConnected on a record that exists and lacks access_token
C4_Witness ==
    \E c \in Tools :
        /\ pc[c] = "done"
        /\ fn[c] = GVAT
        /\ NotConnected(outcome[c])
        /\ requests[c] = 0
        /\ TOKENS_FILE.exists
        /\ ~Has(Stored, "access_token")
        /\ Has(Stored, "refresh_token")

(***************************************************************************)
(* C5.  refresh_access_token on a record without refresh_token fails with  *)
(* ReconnectRequired and sends no request, whether or not the client       *)
(* credentials are configured; called directly or by                       *)
(* get_valid_access_token on a record it finds expired.                    *)
(***************************************************************************)
C5_FailsReconnect(c) ==
    /\ pc'[c] = "done"
    /\ ReconnectRequired(outcome'[c])
    /\ requests'[c] = 0
    /\ request'[c] = NoRequest
    /\ TOKENS_FILE' = TOKENS_FILE

C5_ReconnectRequired ==
    [][\A c \in Tools :
        /\ \A t \in RefreshArguments(now) :
              (refresh_access_token(c, t) /\ ~Has(t, "refresh_token"))
              => C5_FailsReconnect(c)
        /\ ( /\ GvatEnters(c)
             /\ TOKENS_FILE.exists
             /\ Has(Stored, "access_token")
             /\ is_token_expired(Stored, now)
             /\ ~Has(Stored, "refresh_token") )
           => C5_FailsReconnect(c)
      ]_vars

\* ReconnectRequired from a direct call while no credential is configured
C5_Witness ==
    \E c \in Tools :
        /\ pc[c] = "done"
        /\ fn[c] = REFRESH
        /\ ReconnectRequired(outcome[c])
        /\ requests[c] = 0
        /\ env = {}

(***************************************************************************)
(* C6.  refresh_access_token on a record that has a refresh_token fails    *)
(* with ConfigurationError, before any request is sent, whenever the       *)
(* client identifier or the client secret is not configured.               *)
(***************************************************************************)
C6_FailsConfiguration(c) ==
    /\ pc'[c] = "done"
    /\ ConfigurationError(outcome'[c])
    /\ requests'[c] = 0
    /\ request'[c] = NoRequest
    /\ TOKENS_FILE' = TOKENS_FILE

C6_ConfigurationError ==
    [][\A c \in Tools :
        /\ \A t \in RefreshArguments(now) :
              (refresh_access_token(c, t) /\ Has(t, "refresh_token") /\ ~Configured)
              => C6_FailsConfiguration(c)
        /\ ( /\ GvatEnters(c)
             /\ TOKENS_FILE.exists
             /\ Has(Stored, "access_token")
             /\ is_token_expired(Stored, now)
             /\ Has(Stored, "refresh_token")
             /\ ~Configured )
           => C6_FailsConfiguration(c)
      ]_vars

\* ConfigurationError while exactly one of the two credentials is set
C6_Witness ==
    \E c \in Tools :
        /\ pc[c] = "done"
        /\ ConfigurationError(outcome[c])
        /\ requests[c] = 0
        /\ env = {CLIENT_ID}

(***************************************************************************)
(* C7.  When the server answers a refresh request with a status other than *)
(* 200, the call fails with RefreshFailed and sends nothing more; the      *)
(* message carries the error_description of a JSON error body that has     *)
(* one, otherwise the body's error field, otherwise the raw response text. *)
(***************************************************************************)
C7_Description(r) ==
    IF r.is_json /\ Has(r.json, "error_description")
    THEN r.json["error_description"]
    ELSE IF r.is_json /\ Has(r.json, "error")
    THEN r.json["error"]
    ELSE r.text

C7_RefreshFailed ==
    [][\A c \in Tools :
        ( /\ pc[c] = "refreshing"
          /\ response'[c] # response[c]
          /\ response'[c].status # 200 )
        => /\ pc'[c] = "done"
           /\ outcome'[c] =
                Raise("RuntimeError",
                      <<MSG_REFRESH_FAILED, C7_Description(response'[c])>>)
           /\ requests'[c] = requests[c]
           /\ request'[c] = NoRequest
           /\ TOKENS_FILE' = TOKENS_FILE
      ]_vars

\* a rejected refresh whose body had both fields: the description is reported
C7_Witness ==
    \E c \in Tools :
        /\ pc[c] = "done"
        /\ response[c].status = 400
        /\ Has(response[c].json, "error")
        /\ outcome[c] = Raise("RuntimeError", <<MSG_REFRESH_FAILED, "token revoked">>)
        /\ requests[c] = 1

(***************************************************************************)
(* C8.  A call sends at most one refresh request, however it ends.         *)
(***************************************************************************)
C8_AtMostOneRefresh == \A c \in Callers : requests[c] <= 1

\* a call that sent its one request, had it rejected, and ended
C8_Witness ==
    \E c \in Tools :
        /\ pc[c] = "done"
        /\ fn[c] = GVAT
        /\ RefreshFailed(outcome[c])
        /\ requests[c] = 1

(***************************************************************************)
(* C9.  As claimed: every call of get_valid_access_token either returns    *)
(* the access_token of the record persisted at that moment or fails with   *)
(* NotConnected, ReconnectRequired, ConfigurationError, RefreshFailed or   *)
(* PersistenceFailure, also when the server's success response carries no  *)
(* access_token.                                                           *)
(***************************************************************************)
C9_AsClaimed ==
    [][\A c \in Tools :
        (pc[c] # "done" /\ pc'[c] = "done" /\ fn'[c] = GVAT)
        => \/ /\ outcome'[c].kind = "return"
              /\ TOKENS_FILE'.exists
              /\ Has(Stored', "access_token")
              /\ outcome'[c].value = Stored'["access_token"]
           \/ NotConnected(outcome'[c])
           \/ ReconnectRequired(outcome'[c])
           \/ ConfigurationError(outcome'[c])
           \/ RefreshFailed(outcome'[c])
           \/ PersistenceFailure(outcome'[c])
      ]_vars

(***************************************************************************)
(* C10.  For every record in which created_at and expires_in are both      *)
(* present and created_at + expires_in is more than 300 seconds after the  *)
(* current time, is_token_expired returns false.                           *)
(***************************************************************************)
C10_NotExpiredOutsideBuffer ==
    ( /\ probe.called
      /\ Has(probe.tokens, "created_at")
      /\ Has(probe.tokens, "expires_in")
      /\ probe.tokens["created_at"] + probe.tokens["expires_in"] > now + 300 )
    => probe.ret = FALSE

\* the last second outside the buffer
C10_Witness ==
    /\ probe.called
    /\ Has(probe.tokens, "created_at")
    /\ Has(probe.tokens, "expires_in")
    /\ probe.tokens["created_at"] > 0
    /\ probe.tokens["created_at"] + probe.tokens["expires_in"] = now + 301
    /\ probe.ret = FALSE

(***************************************************************************)
(* C11.  For every record in which created_at and expires_in are both      *)
(* present, with any integer values, and created_at + expires_in is at or  *)
(* before the current time plus 300 seconds, is_token_expired returns      *)
(* true.                                                                   *)
(***************************************************************************)
C11_AsClaimed ==
    ( /\ probe.called
      /\ Has(probe.tokens, "created_at")
      /\ Has(probe.tokens, "expires_in")
      /\ probe.tokens["created_at"] + probe.tokens["expires_in"] <= now + 300 )
    => probe.ret = TRUE

(***************************************************************************)
(* C12.  As claimed: for every record that is missing created_at or        *)
(* missing expires_in, is_token_expired returns false, whatever other      *)
(* fields the record has or lacks and whatever the current time is.        *)
(***************************************************************************)
C12_AsClaimed ==
    ( /\ probe.called
      /\ (~Has(probe.tokens, "created_at") \/ ~Has(probe.tokens, "expires_in")) )
    => probe.ret = FALSE

(***************************************************************************)
(* C12, amended.  For every record that has at least one field and is      *)
(* missing created_at or missing expires_in, is_token_expired returns      *)
(* false at every time; for the record with no field at all it returns     *)
(* true.                                                                   *)
(***************************************************************************)
C12_MissingFieldNotExpired ==
    ( /\ probe.called
      /\ (~Has(probe.tokens, "created_at") \/ ~Has(probe.tokens, "expires_in")) )
    => (probe.ret = TRUE <=> probe.tokens = EmptyDict)

\* a record with a lifetime and no created_at, at the latest time tried
C12_Witness ==
    /\ probe.called
    /\ DOMAIN probe.tokens = {"expires_in"}
    /\ probe.tokens["expires_in"] # 0
    /\ now = 2 * ProbeSpan
    /\ probe.ret = FALSE

(***************************************************************************)
(* The store's functions called directly, one call at a time, next to      *)
(* get_valid_access_token, the disconnect handler and the clock.           *)
(***************************************************************************)
\* the payloads handed to save_tokens: short and long lifetimes
StoreExpiresIn == {0, 150, 500}
StorePayloads(t) ==
    {a @@ r @@ e @@ c :
        a \in AccessParts, r \in RefreshParts,
        e \in {EmptyDict} \cup {"expires_in" :> v : v \in StoreExpiresIn},
        c \in CreatedParts(t)}

\* Python's max(0, x)
max0(x) == IF x > 0 THEN x ELSE 0

\* the value load_tokens() returns or the exception it raises
load_tokens_outcome ==
    LET loaded == load_tokens
    IN  IF loaded.error THEN Raise("JSONDecodeError", <<>>)
        ELSE IF loaded.none THEN Return("None")
        ELSE ReturnDict(loaded.value)

\* the dictionary get_connection_status() builds from a loaded record
connection_status(loaded, current_time) ==
    IF not_connected(loaded)
    THEN ("connected" :> FALSE) @@ ("reason" :> "No tokens found")
    ELSE LET tokens == loaded.value
             status == ("connected" :> TRUE) @@
                       ("has_refresh_token" :> Has(tokens, "refresh_token"))
         IN  IF TruthyInt(tokens, "created_at") /\ TruthyInt(tokens, "expires_in")
             THEN LET expiry_time == tokens["created_at"] + tokens["expires_in"]
                      time_remaining == expiry_time - current_time
                  IN  status @@
                      ("token_expires_at" :> expiry_time) @@
                      ("token_expired" :> (time_remaining <= 0)) @@
                      ("seconds_until_expiry" :> max0(time_remaining)) @@
                      ("minutes_until_expiry" :> max0(time_remaining \div 60))
             ELSE status

\* the value get_connection_status() returns or the exception it raises
get_connection_status_outcome ==
    LET loaded == load_tokens
    IN  IF loaded.error THEN Raise("JSONDecodeError", <<>>)
        ELSE ReturnDict(connection_status(loaded, now))

\* save_tokens(tokens), called by tool call c
save_tokens_call(c, tokens) ==
    /\ Enters(c, "save_tokens")
    /\ TOKENS_FILE' = save_tokens(tokens, now)
    /\ Ends(c, Return("None"))
    /\ UNCHANGED <<now, env, response, requests, web, probe, tool>>

\* load_tokens(), called by tool call c
load_tokens_call(c) ==
    /\ Enters(c, "load_tokens")
    /\ Ends(c, load_tokens_outcome)
    /\ UNCHANGED <<now, env, TOKENS_FILE, response, requests, web, probe, tool>>

\* delete_tokens as it would be if it emptied the file instead of removing it
delete_tokens_call_truncate(c) ==
    /\ Enters(c, "delete_tokens")
    /\ TOKENS_FILE' = IF TOKENS_FILE.exists
                      THEN [exists |-> TRUE, data |-> EmptyText]
                      ELSE TOKENS_FILE
    /\ Ends(c, Return("None"))
    /\ UNCHANGED <<now, env, response, requests, web, probe, tool>>

\* delete_tokens(), called by tool call c
delete_tokens_call(c) ==
    /\ Enters(c, "delete_tokens")
    /\ TOKENS_FILE' = IF TOKENS_FILE.exists THEN NoFile ELSE TOKENS_FILE
    /\ Ends(c, Return("None"))
    /\ UNCHANGED <<now, env, response, requests, web, probe, tool>>

\* get_connection_status as it would be if it stamped and saved the record
\* it read, as the refresh does
get_connection_status_stamping(c) ==
    /\ Enters(c, "get_connection_status")
    /\ Ends(c, get_connection_status_outcome)
    /\ TOKENS_FILE' = IF load_tokens.none \/ load_tokens.error
                      THEN TOKENS_FILE
                      ELSE save_tokens(stamp_created_at(load_tokens.value, now), now)
    /\ UNCHANGED <<now, env, response, requests, web, probe, tool>>

\* get_connection_status(), called by tool call c
get_connection_status(c) ==
    /\ Enters(c, "get_connection_status")
    /\ Ends(c, get_connection_status_outcome)
    /\ UNCHANGED <<now, env, TOKENS_FILE, response, requests, web, probe, tool>>

\* the records handed to refresh_access_token: the refresh_token may be
\* missing, empty or a token
StoreRefreshArguments(t) ==
    {a @@ r @@ c :
        a \in AccessParts,
        r \in RefreshParts \cup {"refresh_token" :> ""},
        c \in CreatedParts(t)}

InitStore ==
    /\ now \in StartTimes
    /\ env = {CLIENT_ID, CLIENT_SECRET}
    /\ TOKENS_FILE = NoFile
    /\ Idle
    /\ probe = NoProbe

NextStore ==
    \/ \E c \in Tools : \E t \in StorePayloads(now) : save_tokens_call(c, t)
    \/ \E c \in Tools : load_tokens_call(c)
    \/ \E c \in Tools : delete_tokens_call(c)
    \/ \E c \in Tools : get_connection_status(c)
    \/ \E c \in Tools : get_valid_access_token(c)
    \/ \E c \in Tools : \E t \in StoreRefreshArguments(now) :
            refresh_access_token(c, t)
    \/ \E c \in Tools : \E r \in TokenResponses(now) : refresh_response(c, r)
    \/ \E c \in Tools : tool_returns(c)
    \/ calendly_disconnect
    \/ \E d \in TickSteps : Tick(d)

SpecStore == InitStore /\ [][NextStore]_vars

\* the step in which tool call c calls f and f runs to its end
Calls(c, f) == pc[c] = "idle" /\ pc'[c] = "done" /\ fn'[c] = f

(***************************************************************************)
(* C13.  Round trip: for every token payload t, save_tokens(t) followed by *)
(* load_tokens() returns a record equal to t, except that created_at is    *)
(* the time of the save when t omitted it; and saving the loaded record    *)
(* again, also at a later time, leaves the file as it is.                  *)
(***************************************************************************)
C13_RoundTrip ==
    [][\A c \in Tools : \A t \in StorePayloads(now) :
        save_tokens_call(c, t)
        => /\ load_tokens_outcome' =
                ReturnDict(IF Has(t, "created_at") THEN t
                           ELSE SetKey(t, "created_at", now))
           /\ \A later \in {now, now + 1} :
                save_tokens(load_tokens'.value, later) = TOKENS_FILE'
      ]_vars

\* a payload without created_at and without expires_in was saved and stamped
C13_Witness ==
    \E c \in Tools :
        /\ pc[c] = "done"
        /\ fn[c] = "save_tokens"
        /\ TOKENS_FILE.exists
        /\ DOMAIN Stored = {"access_token", "refresh_token", "created_at"}
        /\ Stored["created_at"] = now
        /\ load_tokens_outcome = ReturnDict(Stored)

(***************************************************************************)
(* C14.  delete_tokens() from any store state leaves no file, so that the  *)
(* next load_tokens() returns None; on a store that is already empty it    *)
(* changes nothing and does not fail.  The web disconnect action has the   *)
(* same effect on the file and always reports success.                     *)
(***************************************************************************)
C14_DeleteEmpties ==
    [][\A c \in Tools :
        /\ Calls(c, "delete_tokens")
           => /\ outcome'[c] = Return("None")
              /\ ~TOKENS_FILE'.exists
              /\ load_tokens_outcome' = Return("None")
              /\ ~TOKENS_FILE.exists => TOKENS_FILE' = TOKENS_FILE
        /\ calendly_disconnect
           => /\ web' = Return("success")
              /\ ~TOKENS_FILE'.exists
              /\ load_tokens_outcome' = Return("None")
              /\ ~TOKENS_FILE.exists => TOKENS_FILE' = TOKENS_FILE
      ]_vars

\* delete_tokens() has returned, after a disconnect, and nothing is stored
C14_Witness ==
    \E c \in Tools :
        /\ pc[c] = "done"
        /\ fn[c] = "delete_tokens"
        /\ outcome[c] = Return("None")
        /\ web = Return("success")
        /\ ~TOKENS_FILE.exists
        /\ load_tokens_outcome = Return("None")

(***************************************************************************)
(* C15.  Record invariant: after any sequence of authorization callbacks,  *)
(* refreshes and disconnects, the file is absent or its record has at      *)
(* least access_token and created_at: every writer stamps created_at       *)
(* when the payload lacks it.                                              *)
(***************************************************************************)
C15_AsClaimed ==
    TOKENS_FILE.exists
    => /\ Has(Stored, "access_token")
       /\ Has(Stored, "created_at")

(***************************************************************************)
(* C16.  Full replacement: after save_tokens(new) or a successful refresh  *)
(* the file holds one record whose fields are exactly those of the new     *)
(* payload, with their values, plus created_at; no field of the record     *)
(* stored before, its refresh_token included, is left.                     *)
(***************************************************************************)
C16_Replaced(new, created_at) ==
    /\ TOKENS_FILE'.exists
    /\ TOKENS_FILE'.data.valid
    /\ DOMAIN Stored' = DOMAIN new \cup {"created_at"}
    /\ \A k \in DOMAIN new \ {"created_at"} : Stored'[k] = new[k]
    /\ Stored'["created_at"] = created_at
    /\ \A k \in DOMAIN Stored \ (DOMAIN new \cup {"created_at"}) : ~Has(Stored', k)

C16_FullReplacement ==
    [][\A c \in Tools :
        /\ \A t \in StorePayloads(now) :
              save_tokens_call(c, t)
              => C16_Replaced(t, IF Has(t, "created_at") THEN t["created_at"]
                                 ELSE now)
        /\ (Answered(c) /\ response'[c].status = 200)
           => C16_Replaced(response'[c].json, now)
      ]_vars

\* a refresh whose answer carried no refresh_token replaced a record that
\* had one
C16_Witness ==
    \E c \in Tools :
        /\ pc[c] = "done"
        /\ fn[c] = GVAT
        /\ requests[c] = 1
        /\ response[c].status = 200
        /\ Has(response[c].json, "access_token")
        /\ ~Has(response[c].json, "refresh_token")
        /\ TOKENS_FILE.exists
        /\ ~Has(Stored, "refresh_token")
        /\ Stored["access_token"] = response[c].json["access_token"]

(***************************************************************************)
(* C19.  load_tokens() and get_connection_status() never change the file   *)
(* and never send a request, in any store state; the result of either is   *)
(* the result a second call would give right after it, the clock not       *)
(* having moved.                                                           *)
(***************************************************************************)
C19_ReadOnly ==
    [][\A c \in Tools :
        /\ (pc[c] = "idle" /\ fn'[c] = "load_tokens")
           => /\ pc'[c] = "done"
              /\ TOKENS_FILE' = TOKENS_FILE
              /\ requests'[c] = 0
              /\ request'[c] = NoRequest
              /\ outcome'[c] = load_tokens_outcome'
        /\ (pc[c] = "idle" /\ fn'[c] = "get_connection_status")
           => /\ pc'[c] = "done"
              /\ TOKENS_FILE' = TOKENS_FILE
              /\ requests'[c] = 0
              /\ request'[c] = NoRequest
              /\ outcome'[c] = get_connection_status_outcome'
      ]_vars

\* the status of a lapsed record without refresh_token was read
C19_Witness ==
    \E c \in Tools :
        /\ pc[c] = "done"
        /\ fn[c] = "get_connection_status"
        /\ requests[c] = 0
        /\ TOKENS_FILE.exists
        /\ Has(Stored, "access_token")
        /\ ~Has(Stored, "refresh_token")
        /\ TruthyInt(Stored, "created_at")
        /\ TruthyInt(Stored, "expires_in")
        /\ now > Stored["created_at"] + Stored["expires_in"]
        /\ outcome[c] = get_connection_status_outcome

(***************************************************************************)
(* C20.  For every record that has access_token and in which created_at    *)
(* and expires_in are both present, get_connection_status reports          *)
(* connected = true, token_expires_at = created_at + expires_in,           *)
(* token_expired = (now >= created_at + expires_in),                       *)
(* seconds_until_expiry = max(0, created_at + expires_in - now) and a      *)
(* minutes_until_expiry that is not negative; with no record, or a record  *)
(* without access_token, it reports connected = false with a reason.       *)
(***************************************************************************)
C20_AsClaimed ==
    [][\A c \in Tools :
        Calls(c, "get_connection_status")
        => LET status == outcome'[c].dict
           IN  /\ outcome'[c].kind = "return"
               /\ ( /\ TOKENS_FILE.exists
                    /\ Has(Stored, "access_token")
                    /\ Has(Stored, "created_at")
                    /\ Has(Stored, "expires_in") )
                  => LET expiry == Stored["created_at"] + Stored["expires_in"]
                     IN  /\ status["connected"] = TRUE
                         /\ Has(status, "token_expires_at")
                         /\ status["token_expires_at"] = expiry
                         /\ status["token_expired"] = (now >= expiry)
                         /\ status["seconds_until_expiry"] =
                              (IF expiry - now > 0 THEN expiry - now ELSE 0)
                         /\ status["minutes_until_expiry"] >= 0
               /\ (~TOKENS_FILE.exists \/ ~Has(Stored, "access_token"))
                  => /\ status["connected"] = FALSE
                     /\ Has(status, "reason")
      ]_vars

(***************************************************************************)
(* Overlapping calls.  The tool functions are synchronous and run on       *)
(* worker threads, and the web application is another process: calls       *)
(* overlap, and nothing locks the file.  save_tokens is two steps here:    *)
(* open(TOKENS_FILE, "w") truncates the file, and the text json.dump       *)
(* buffered reaches the file when the with-block closes it.  The clock     *)
(* stands still during the race.                                           *)
(***************************************************************************)
\* length of a text, counted in members
text_size(text) == Cardinality(text.members)

\* the file's text after a writer that opened it earlier flushes its text at
\* offset 0: a longer text on disk, written by another writer since, keeps
\* its tail and the result is not JSON
write_text(disk, text) ==
    IF text_size(text) >= text_size(disk) THEN text
    ELSE [valid |-> FALSE, members |-> text.members \cup disk.members]

\* the records found stored when the overlapping calls begin
RaceRecords(t) ==
    {p \in TokenPayloads(t) :
        /\ Has(p, "access_token")
        /\ Has(p, "refresh_token")
        /\ TruthyInt(p, "expires_in")
        /\ Has(p, "created_at")}

\* the answers of the authorization server during the race
RaceResponses ==
    {[status |-> 200, is_json |-> TRUE, json |-> a @@ r @@ ("expires_in" :> 500),
      text |-> "{...}"] :
        a \in {"access_token" :> v : v \in AccessTokens}, r \in RefreshParts}
    \cup {rr \in ErrorResponses : Has(rr.json, "error_description")}

\* the authorization server answers c's refresh request with r; on success
\* refresh_access_token stamps the record and save_tokens opens the file
refresh_response_open(c, r) ==
    /\ pc[c] = "refreshing"
    /\ response' = [response EXCEPT ![c] = r]
    /\ IF r.status # 200
       THEN /\ Ends(c, Raise("RuntimeError", <<MSG_REFRESH_FAILED, error_detail(r)>>))
            /\ UNCHANGED TOKENS_FILE
       ELSE /\ TOKENS_FILE' = [exists |-> TRUE, data |-> EmptyText]
            /\ pc' = [pc EXCEPT ![c] = "saving"]
            /\ UNCHANGED <<outcome, request>>
    /\ UNCHANGED <<now, env, fn, requests, web, probe, tool>>

\* the with-block of save_tokens ends: the text is flushed and the file
\* closed; refresh_access_token and get_valid_access_token return
save_tokens_close(c) ==
    /\ pc[c] = "saving"
    /\ LET new_tokens == stamp_created_at(response[c].json, now)
       IN  /\ TOKENS_FILE' =
                [exists |-> TRUE,
                 data |-> write_text(TOKENS_FILE.data,
                                     save_tokens(new_tokens, now).data)]
           /\ Ends(c, IF fn[c] = "refresh_access_token"
                      THEN ReturnDict(new_tokens)
                      ELSE return_access_token(new_tokens))
    /\ UNCHANGED <<now, env, fn, response, requests, web, probe, tool>>

InitRace ==
    /\ now \in StartTimes
    /\ env = {CLIENT_ID, CLIENT_SECRET}
    /\ TOKENS_FILE \in {Written(p) : p \in RaceRecords(now)}
    /\ Idle
    /\ probe = NoProbe

NextRace ==
    \/ \E c \in Callers : get_valid_access_token(c)
    \/ \E c \in Callers : \E r \in RaceResponses : refresh_response_open(c, r)
    \/ \E c \in Callers : save_tokens_close(c)
    \/ \E c \in Callers : load_tokens_call(c)
    \/ \E c \in Callers : tool_returns(c)

SpecRace == InitRace /\ [][NextRace]_vars

(***************************************************************************)
(* C17.  The replacement of the old record by a refresh is atomic: a       *)
(* load_tokens() by another request at any point during the write returns  *)
(* the complete old record or the complete new one, never an empty or      *)
(* partly written record, and never fails.                                 *)
(***************************************************************************)
C17_AsClaimed ==
    [][\A c \in Callers :
        ( /\ Calls(c, "load_tokens")
          /\ \E w \in Callers \ {c} : pc[w] = "saving" )
        => /\ outcome'[c].kind = "return"
           /\ Has(outcome'[c].dict, "access_token")
           /\ Has(outcome'[c].dict, "created_at")
      ]_vars

(***************************************************************************)
(* C18.  Two overlapping get_valid_access_token calls on one stale record  *)
(* can both send a refresh request with the same refresh_token and both    *)
(* succeed; each returns the access token of its own refresh response,     *)
(* and when a call's save ends the file holds the record that call wrote   *)
(* (last writer wins).                                                     *)
(***************************************************************************)
C18_AsClaimed ==
    [][\A c \in Callers :
        ( /\ fn[c] = GVAT
          /\ pc[c] = "saving"
          /\ pc'[c] = "done"
          /\ Has(response[c].json, "access_token") )
        => /\ outcome'[c] = Return(response[c].json["access_token"])
           /\ TOKENS_FILE' = Written(stamp_created_at(response[c].json, now))
      ]_vars

(***************************************************************************)
(* C21.  get_connection_status reports the refresh token consistently     *)
(* with refresh_access_token: for every record that has access_token,      *)
(* has_refresh_token is true exactly when refresh_access_token(record)     *)
(* does not fail with ReconnectRequired.                                   *)
(***************************************************************************)
C21_AsClaimed ==
    [][\A c \in Tools : \A t \in StoreRefreshArguments(now) :
        (refresh_access_token(c, t) /\ Has(t, "access_token"))
        => LET status ==
                 connection_status([none |-> FALSE, error |-> FALSE, value |-> t],
                                   now)
           IN  status["has_refresh_token"] = TRUE
               <=> ~ReconnectRequired(outcome'[c])
      ]_vars

(***************************************************************************)
(* tools/calendly.py: the three tools.  calendly_list_event_types calls    *)
(* _get_current_user_uri and then _calendly_request; the other two call    *)
(* _calendly_request only.  Each helper first calls                        *)
(* get_valid_access_token and then sends its request to the Calendly API.  *)
(***************************************************************************)
LIST_EVENT_TYPES == "calendly_list_event_types"
ToolNames ==
    {LIST_EVENT_TYPES, "calendly_check_availability", "calendly_create_event"}

\* the statuses the Calendly API answers with
ApiStatuses == {200, 401}

\* the except clauses as they would be with the general clause first
tool_except_general_first(o) ==
    ToolReturn(FALSE, <<MSG_UNEXPECTED>> \o o.msg)

\* except RuntimeError as e: error = str(e);
\* except Exception as e: error = f"Unexpected error: {str(e)}"
tool_except(o) ==
    IF o.exc = "RuntimeError"
    THEN ToolReturn(FALSE, o.msg)
    ELSE ToolReturn(FALSE, <<MSG_UNEXPECTED>> \o o.msg)

\* caller c calls the tool name; the tool is about to ask for a token
tool_starts(c, name) ==
    /\ tool[c].stage = ""
    /\ pc[c] = "idle"
    /\ tool' = [tool EXCEPT ![c] =
            [name |-> name,
             call |-> IF name = LIST_EVENT_TYPES THEN "_get_current_user_uri"
                      ELSE "_calendly_request",
             stage |-> "token", api_requests |-> 0, result |-> NoResult]]
    /\ UNCHANGED <<now, env, TOKENS_FILE, pc, fn, request, response, requests,
                   outcome, web, probe>>

\* token = get_valid_access_token() in the helper the tool is in
tool_get_valid_access_token(c) ==
    /\ tool[c].stage = "token"
    /\ get_valid_access_token(c)

\* get_valid_access_token has ended: an exception reaches the tool's except
\* clauses and the tool returns; a token goes into the helper's request to
\* the Calendly API
tool_takes_token(c) ==
    /\ tool[c].stage = "token"
    /\ pc[c] = "done"
    /\ tool' = [tool EXCEPT ![c] =
            IF outcome[c].kind = "raise"
            THEN [@ EXCEPT !.stage = "returned",
                           !.result = tool_except(outcome[c])]
            ELSE [@ EXCEPT !.stage = "request",
                           !.api_requests = @ + 1]]
    /\ pc' = [pc EXCEPT ![c] = "idle"]
    /\ fn' = [fn EXCEPT ![c] = ""]
    /\ response' = [response EXCEPT ![c] = NoResponse]
    /\ requests' = [requests EXCEPT ![c] = 0]
    /\ outcome' = [outcome EXCEPT ![c] = NoOutcome]
    /\ UNCHANGED <<now, env, TOKENS_FILE, request, web, probe>>

\* the Calendly API answers the helper's request with status: GET /users/me
\* must be answered 200 or _get_current_user_uri raises RuntimeError; the
\* answer to _calendly_request decides the tool's result
api_response(c, status) ==
    /\ tool[c].stage = "request"
    /\ tool' = [tool EXCEPT ![c] =
            IF @.call = "_get_current_user_uri"
            THEN IF status # 200
                 THEN [@ EXCEPT !.stage = "returned",
                                !.result = tool_except(
                                    Raise("RuntimeError",
                                          <<MSG_CURRENT_USER_FAILED, "response.text">>))]
                 ELSE [@ EXCEPT !.call = "_calendly_request", !.stage = "token"]
            ELSE [@ EXCEPT !.stage = "returned",
                           !.result = IF 200 <= status /\ status < 300
                                      THEN ToolReturn(TRUE, <<>>)
                                      ELSE ToolReturn(FALSE, <<"API error">>)]]
    /\ UNCHANGED <<now, env, TOKENS_FILE, pc, fn, request, response, requests,
                   outcome, web, probe>>

\* the tool's caller takes the result
tool_ends(c) ==
    /\ tool[c].stage = "returned"
    /\ tool' = [tool EXCEPT ![c] = NoTool]
    /\ UNCHANGED <<now, env, TOKENS_FILE, pc, fn, request, response, requests,
                   outcome, web, probe>>

\* the record the OAuth callback stored before the tools are used
InitTools ==
    /\ now \in StartTimes
    /\ env \in SUBSET {CLIENT_ID, CLIENT_SECRET}
    /\ TOKENS_FILE \in {NoFile} \cup {routes_save_tokens(p) : p \in TokenPayloads(now)}
    /\ Idle
    /\ probe = NoProbe

NextTools ==
    \/ \E c \in Tools : \E name \in ToolNames : tool_starts(c, name)
    \/ \E c \in Tools : tool_get_valid_access_token(c)
    \/ \E c \in Tools : \E r \in TokenResponses(now) : refresh_response(c, r)
    \/ \E c \in Tools : tool_takes_token(c)
    \/ \E c \in Tools : \E s \in ApiStatuses : api_response(c, s)
    \/ \E c \in Tools : tool_ends(c)
    \/ calendly_disconnect
    \/ \E d \in TickSteps : Tick(d)

SpecTools == InitTools /\ [][NextTools]_vars

\* the failures of get_valid_access_token the tools are to surface
C22_TokenFailure(o) ==
    \/ NotConnected(o)
    \/ ReconnectRequired(o)
    \/ ConfigurationError(o)
    \/ RefreshFailed(o)

(***************************************************************************)
(* C22.  As claimed: when get_valid_access_token fails with NotConnected,  *)
(* ReconnectRequired, ConfigurationError or RefreshFailed, the tool        *)
(* returns success = false with the failure's message as error, and has    *)
(* sent no request to the Calendly API.                                    *)
(***************************************************************************)
C22_AsClaimed ==
    [][\A c \in Tools :
        (tool_takes_token(c) /\ C22_TokenFailure(outcome[c]))
        => /\ tool'[c].stage = "returned"
           /\ tool'[c].result = ToolReturn(FALSE, outcome[c].msg)
           /\ tool'[c].api_requests = 0
      ]_vars

(***************************************************************************)
(* C22, amended.  No tool ever raises to its caller.  When                 *)
(* get_valid_access_token fails with NotConnected, ReconnectRequired,      *)
(* ConfigurationError or RefreshFailed, the tool returns success = false   *)
(* with the failure's message as error and sends no request to the         *)
(* Calendly API after the failure: calendly_check_availability and         *)
(* calendly_create_event have sent none at all, and                        *)
(* calendly_list_event_types has sent none when its first                  *)
(* get_valid_access_token call failed and only GET /users/me when its      *)
(* second one failed.                                                      *)
(***************************************************************************)
C22_FailureSurfaced ==
    [][\A c \in Tools :
        /\ tool'[c].result.kind # "raise"
        /\ (tool_takes_token(c) /\ C22_TokenFailure(outcome[c]))
           => /\ tool'[c].stage = "returned"
              /\ tool'[c].result = ToolReturn(FALSE, outcome[c].msg)
              /\ tool'[c].api_requests = tool[c].api_requests
              /\ tool'[c].api_requests =
                    IF tool[c].name = LIST_EVENT_TYPES
                       /\ tool[c].call = "_calendly_request"
                    THEN 1 ELSE 0
        /\ tool[c].stage = "returned" => tool'[c].api_requests <= tool[c].api_requests
      ]_vars

\* calendly_list_event_types got the user, then its second token call had
\* its refresh rejected: the failure is returned after one API request
C22_Witness ==
    \E c \in Tools :
        /\ tool[c].name = LIST_EVENT_TYPES
        /\ tool[c].stage = "returned"
        /\ tool[c].api_requests = 1
        /\ tool[c].result = ToolReturn(FALSE, <<MSG_REFRESH_FAILED, "token revoked">>)

(***************************************************************************)
(* C23.  A failed refresh leaves the store untouched: no step of a call of *)
(* refresh_access_token or get_valid_access_token that ends with           *)
(* ReconnectRequired, ConfigurationError or RefreshFailed writes the file, *)
(* so the record stored after the failure is the record stored before it.  *)
(***************************************************************************)
C23_RefreshFailure(o) ==
    ReconnectRequired(o) \/ ConfigurationError(o) \/ RefreshFailed(o)

C23_FailedRefreshKeepsStore ==
    [][\A c \in Tools :
        /\ ( /\ pc[c] # "done"
             /\ pc'[c] = "done"
             /\ fn'[c] \in {GVAT, REFRESH}
             /\ C23_RefreshFailure(outcome'[c]) )
           => /\ TOKENS_FILE' = TOKENS_FILE
              /\ Stored' = Stored
        /\ (pc[c] = "idle" /\ pc'[c] = "refreshing")
           => TOKENS_FILE' = TOKENS_FILE
      ]_vars

\* a refresh through get_valid_access_token was rejected and the old tokens
\* are still stored
C23_Witness ==
    \E c \in Tools :
        /\ pc[c] = "done"
        /\ fn[c] = GVAT
        /\ RefreshFailed(outcome[c])
        /\ TOKENS_FILE.exists
        /\ Has(Stored, "access_token")
        /\ Has(Stored, "refresh_token")
        /\ is_token_expired(Stored, now)

(***************************************************************************)
(* C24.  The strict view implies the buffered one: whenever                *)
(* get_connection_status reports token_expired = true for the stored       *)
(* record, is_token_expired is true of it, and a get_valid_access_token    *)
(* call entered at that moment does not return without a refresh.          *)
(***************************************************************************)
C24_ReportedExpired(d) ==
    Has(d, "token_expired") /\ d["token_expired"] = TRUE

C24_StrictImpliesBuffered ==
    [][\A c \in Tools :
        /\ ( /\ Calls(c, "get_connection_status")
             /\ C24_ReportedExpired(outcome'[c].dict) )
           => is_token_expired(Stored, now)
        /\ ( /\ GvatEnters(c)
             /\ ~load_tokens.error
             /\ C24_ReportedExpired(connection_status(load_tokens, now)) )
           => ~(pc'[c] = "done" /\ outcome'[c].kind = "return")
      ]_vars

\* the status would report the stored token expired, and the call is in its
\* refresh
C24_Witness ==
    \E c \in Tools :
        /\ pc[c] = "refreshing"
        /\ fn[c] = GVAT
        /\ ~load_tokens.error
        /\ C24_ReportedExpired(connection_status(load_tokens, now))

(***************************************************************************)
(* C25.  As claimed: a get_valid_access_token call that loaded the record, *)
(* was overtaken by a disconnect, and then has its refresh answered, does  *)
(* not re-create the record: the store is still empty after its last step. *)
(***************************************************************************)
C25_AsClaimed ==
    [][\A c \in Tools :
        (Answered(c) /\ fn[c] = GVAT /\ ~TOKENS_FILE.exists)
        => ~TOKENS_FILE'.exists
      ]_vars

(***************************************************************************)
(* The web application on its own: the OAuth callback, the disconnect      *)
(* handler and the clock.                                                  *)
(***************************************************************************)
NextCallback ==
    \/ \E i \in CallbackInputs(now) : calendly_auth_callback(i[1], i[2], i[3])
    \/ calendly_disconnect
    \/ \E d \in TickSteps : Tick(d)

SpecCallback == Init /\ [][NextCallback]_vars

(***************************************************************************)
(* C26.  The authorization callback writes the record only when there is   *)
(* no error parameter, a code is present, both client credentials are      *)
(* configured and the exchange was answered with status 200; in every      *)
(* other case it answers with a failure and leaves the file as it was.     *)
(***************************************************************************)
C26_Failure(o) ==
    \/ o \in {Return("JSONResponse 400"), Return("JSONResponse 500"),
              Return("JSONResponse status_code")}
    \/ o.kind = "raise"

C26_CallbackWritesOnSuccess ==
    [][\A i \in CallbackInputs(now) :
        calendly_auth_callback(i[1], i[2], i[3])
        => IF ~i[1] /\ i[2] /\ Configured /\ i[3].status = 200
           THEN /\ TOKENS_FILE' = Written(i[3].json)
                /\ web' = Return("RedirectResponse")
           ELSE /\ TOKENS_FILE' = TOKENS_FILE
                /\ C26_Failure(web')
      ]_vars

\* a rejected exchange was answered while a record was stored
C26_Witness ==
    /\ web = Return("JSONResponse status_code")
    /\ Configured
    /\ TOKENS_FILE.exists
    /\ Has(Stored, "access_token")

====
